---- MODULE Spec2Model ----
(***************************************************************************)
(* The Azure Key Vault master key of sops (package azkv, keysource.go):    *)
(* the MasterKey object, its identity codec (NewMasterKeyFromURL,          *)
(* MasterKeysFromURLs, ToString), the wrap/unwrap engine (Encrypt,         *)
(* EncryptIfNeeded, Decrypt) against a Key Vault client, and the rotation  *)
(* policy.                                                                 *)
(*                                                                         *)
(* A Go string or []byte is a sequence: text is a sequence of one-         *)
(* character strings, a data key a sequence of bytes 0..255.  An optional  *)
(* value (a nil pointer, a nil slice, no return value) is a sequence of    *)
(* length 0 or 1.                                                          *)
(***************************************************************************)
EXTENDS Integers, Sequences, FiniteSets

VARIABLES keys, last, now, calls

vars == <<keys, last, now, calls>>

None == <<>>

Some(x) == <<x>>

(***************************************************************************)
(* Bounds of the model.                                                    *)
(***************************************************************************)
\* longest plaintext data key handed to Encrypt
MaxKeyLen == 3

\* most segments of a comma separated list handed to MasterKeysFromURLs
MaxSegs == 3

\* the clock runs to at most this many ticks past the rotation threshold
MaxLate == 1

(***************************************************************************)
(* encoding/base64, RawURLEncoding: the URL alphabet, no padding, not      *)
(* strict.                                                                 *)
(***************************************************************************)
encodeURL ==
  << "A","B","C","D","E","F","G","H","I","J","K","L","M","N","O","P",
     "Q","R","S","T","U","V","W","X","Y","Z","a","b","c","d","e","f",
     "g","h","i","j","k","l","m","n","o","p","q","r","s","t","u","v",
     "w","x","y","z","0","1","2","3","4","5","6","7","8","9","-","_" >>

\* the character of a 6-bit value
Chr(v) == encodeURL[v + 1]

RECURSIVE EncodeToString(_)
EncodeToString(src) ==
  IF Len(src) = 0 THEN <<>>
  ELSE IF Len(src) = 1 THEN
    << Chr(src[1] \div 4), Chr((src[1] % 4) * 16) >>
  ELSE IF Len(src) = 2 THEN
    << Chr(src[1] \div 4),
       Chr((src[1] % 4) * 16 + (src[2] \div 16)),
       Chr((src[2] % 16) * 4) >>
  ELSE
    << Chr(src[1] \div 4),
       Chr((src[1] % 4) * 16 + (src[2] \div 16)),
       Chr((src[2] % 16) * 4 + (src[3] \div 64)),
       Chr(src[3] % 64) >>
    \o EncodeToString(SubSeq(src, 4, Len(src)))

\* decodeMap: the 6-bit value of a character of the alphabet
IsAlpha(c) == \E i \in 1..64 : encodeURL[i] = c

Ord(c) == (CHOOSE i \in 1..64 : encodeURL[i] = c) - 1

\* the decoder skips carriage returns and line feeds wherever they stand
IsNewline(c) == c \in {"\n", "\r"}

StripNewlines(s) == SelectSeq(s, LAMBDA c : ~IsNewline(c))

\* the bytes of one quantum of 2, 3 or 4 characters of the alphabet
QuantumBytes(q) ==
  LET a == Ord(q[1])
      b == Ord(q[2])
  IN  IF Len(q) = 2 THEN << a * 4 + (b \div 16) >>
      ELSE LET c == Ord(q[3])
           IN  IF Len(q) = 3
               THEN << a * 4 + (b \div 16), (b % 16) * 16 + (c \div 4) >>
               ELSE << a * 4 + (b \div 16),
                       (b % 16) * 16 + (c \div 4),
                       (c % 4) * 64 + Ord(q[4]) >>

\* Decode over the input without its newlines: the bytes decoded so far and
\* whether the input was corrupt (a character outside the alphabet, the
\* padding character included, or a last quantum of one character)
RECURSIVE decode(_)
decode(s) ==
  IF Len(s) = 0 THEN [bytes |-> <<>>, corrupt |-> FALSE]
  ELSE
    LET n == IF Len(s) < 4 THEN Len(s) ELSE 4
        q == SubSeq(s, 1, n)
    IN  IF (\E i \in 1..n : ~IsAlpha(q[i])) \/ n = 1
        THEN [bytes |-> <<>>, corrupt |-> TRUE]
        ELSE LET rest == decode(SubSeq(s, n + 1, Len(s)))
             IN  [bytes |-> QuantumBytes(q) \o rest.bytes,
                  corrupt |-> rest.corrupt]

\* DecodeString returns the bytes decoded before the error together with it
DecodeString(s) == decode(StripNewlines(s))

(***************************************************************************)
(* Text constants of the source.                                           *)
(***************************************************************************)
Slash == "/"

\* "https://" of the regular expression
HttpsPrefix == << "h","t","t","p","s",":","/","/" >>

\* "/keys/" of the regular expression and of the format string
KeysPath == << "/","k","e","y","s","/" >>

(***************************************************************************)
(* Errors: a kind and, for a parse error, the text that did not parse.     *)
(***************************************************************************)
NoErr == [kind |-> "nil", about |-> <<>>]

Err(kind) == [kind |-> kind, about |-> <<>>]

ParseErr(url) == [kind |-> "ParseError", about |-> url]

(***************************************************************************)
(* MasterKey and its constructors.                                         *)
(***************************************************************************)
MasterKey(vaultURL, name, version, enc, created) ==
  [VaultURL |-> vaultURL, Name |-> name, Version |-> version,
   EncryptedKey |-> enc, CreationDate |-> created]

NewMasterKey(vaultURL, keyName, keyVersion, t) ==
  MasterKey(vaultURL, keyName, keyVersion, <<>>, t)

\* whether lit stands in s at position i
HasLit(s, i, lit) ==
  /\ i + Len(lit) - 1 <= Len(s)
  /\ SubSeq(s, i, i + Len(lit) - 1) = lit

\* [^/]+ is greedy and is followed by "/" or the end of the text: it takes
\* the whole run of characters other than "/" from i; this is the position
\* after that run
RECURSIVE RunEnd(_, _)
RunEnd(s, i) ==
  IF i > Len(s) \/ s[i] = Slash THEN i ELSE RunEnd(s, i + 1)

\* the expression without its closing "$": a match may end before the text
FindUnanchored(url) ==
  LET h0 == Len(HttpsPrefix) + 1
      h1 == RunEnd(url, h0)
      n0 == h1 + Len(KeysPath)
      n1 == RunEnd(url, n0)
      v0 == n1 + 1
      v1 == RunEnd(url, v0)
  IN  IF /\ HasLit(url, 1, HttpsPrefix)
         /\ h1 > h0
         /\ HasLit(url, h1, KeysPath)
         /\ n1 > n0
         /\ HasLit(url, n1, <<Slash>>)
         /\ v1 > v0
      THEN Some(<< SubSeq(url, 1, h1 - 1),
                   SubSeq(url, n0, n1 - 1),
                   SubSeq(url, v0, v1 - 1) >>)
      ELSE None

\* the expression with its first group around the host alone
FindHostGroup(url) ==
  LET h0 == Len(HttpsPrefix) + 1
      h1 == RunEnd(url, h0)
      n0 == h1 + Len(KeysPath)
      n1 == RunEnd(url, n0)
      v0 == n1 + 1
      v1 == RunEnd(url, v0)
  IN  IF /\ HasLit(url, 1, HttpsPrefix)
         /\ h1 > h0
         /\ HasLit(url, h1, KeysPath)
         /\ n1 > n0
         /\ HasLit(url, n1, <<Slash>>)
         /\ v1 > v0
         /\ v1 = Len(url) + 1
      THEN Some(<< SubSeq(url, h0, h1 - 1),
                   SubSeq(url, n0, n1 - 1),
                   SubSeq(url, v0, v1 - 1) >>)
      ELSE None

\* regexp "^(https://[^/]+)/keys/([^/]+)/([^/]+)$": the three groups of the
\* match, or None where FindStringSubmatch returns nil
FindStringSubmatch(url) ==
  LET h0 == Len(HttpsPrefix) + 1
      h1 == RunEnd(url, h0)
      n0 == h1 + Len(KeysPath)
      n1 == RunEnd(url, n0)
      v0 == n1 + 1
      v1 == RunEnd(url, v0)
  IN  IF /\ HasLit(url, 1, HttpsPrefix)
         /\ h1 > h0
         /\ HasLit(url, h1, KeysPath)
         /\ n1 > n0
         /\ HasLit(url, n1, <<Slash>>)
         /\ v1 > v0
         /\ v1 = Len(url) + 1
      THEN Some(<< SubSeq(url, 1, h1 - 1),
                   SubSeq(url, n0, n1 - 1),
                   SubSeq(url, v0, v1 - 1) >>)
      ELSE None

\* the returned key and error
NewMasterKeyFromURL(url, t) ==
  LET parts == FindStringSubmatch(url)
  IN  IF parts = None
      THEN [key |-> None, err |-> ParseErr(url)]
      ELSE [key |-> Some(MasterKey(parts[1][1], parts[1][2], parts[1][3],
                                   <<>>, t)),
            err |-> NoErr]

\* strings.Split(s, ","): the pieces between the commas, one more than there
\* are commas
RECURSIVE Split(_)
Split(s) ==
  IF \A i \in 1..Len(s) : s[i] # ","
  THEN << s >>
  ELSE LET c == CHOOSE i \in 1..Len(s) :
                  s[i] = "," /\ \A j \in 1..(i - 1) : s[j] # ","
       IN  << SubSeq(s, 1, c - 1) >> \o Split(SubSeq(s, c + 1, Len(s)))

\* the loop returning the keys it has when a piece fails
RECURSIVE KeysFromPiecesPartial(_, _, _)
KeysFromPiecesPartial(pieces, acc, t) ==
  IF pieces = <<>> THEN [keys |-> acc, err |-> NoErr]
  ELSE LET r == NewMasterKeyFromURL(Head(pieces), t)
       IN  IF r.err # NoErr
           THEN [keys |-> acc, err |-> r.err]
           ELSE KeysFromPiecesPartial(Tail(pieces), acc \o r.key, t)

\* the loop passing over the empty pieces
RECURSIVE KeysFromPiecesSkipEmpty(_, _, _)
KeysFromPiecesSkipEmpty(pieces, acc, t) ==
  IF pieces = <<>> THEN [keys |-> acc, err |-> NoErr]
  ELSE IF Head(pieces) = <<>>
  THEN KeysFromPiecesSkipEmpty(Tail(pieces), acc, t)
  ELSE LET r == NewMasterKeyFromURL(Head(pieces), t)
       IN  IF r.err # NoErr
           THEN [keys |-> <<>>, err |-> r.err]
           ELSE KeysFromPiecesSkipEmpty(Tail(pieces), acc \o r.key, t)

\* the loop over the pieces: the keys so far, until a piece fails
RECURSIVE KeysFromPieces(_, _, _)
KeysFromPieces(pieces, acc, t) ==
  IF pieces = <<>> THEN [keys |-> acc, err |-> NoErr]
  ELSE LET r == NewMasterKeyFromURL(Head(pieces), t)
       IN  IF r.err # NoErr
           THEN [keys |-> <<>>, err |-> r.err]
           ELSE KeysFromPieces(Tail(pieces), acc \o r.key, t)

\* a nil slice and an empty one are both the empty sequence
MasterKeysFromURLs(urls, t) ==
  IF urls = <<>> THEN [keys |-> <<>>, err |-> NoErr]
  ELSE KeysFromPieces(Split(urls), <<>>, t)

ToString(key) ==
  key.VaultURL \o KeysPath \o key.Name \o <<Slash>> \o key.Version

(***************************************************************************)
(* The encrypted data key of a MasterKey.                                  *)
(***************************************************************************)
\* []byte(key.EncryptedKey): the bytes of the text
EncryptedDataKey(key) == key.EncryptedKey

\* key.EncryptedKey = string(enc): the key after the call
SetEncryptedDataKey(key, enc) == [key EXCEPT !.EncryptedKey = enc]

(***************************************************************************)
(* The Key Vault client.  Its behaviour is the environment's: auth is what *)
(* auth.NewAuthorizerFromEnvironment gives ("ok" or "fail"), res what the  *)
(* remote operation gives (None for an error, Some(text) for a result).    *)
(***************************************************************************)
\* the error newKeyVaultClient returns
newKeyVaultClient(auth) == IF auth = "ok" THEN NoErr ELSE Err("ClientError")

\* the parameters of a remote call: the key triple and the value
Request(key, value) ==
  [vault |-> key.VaultURL, name |-> key.Name, version |-> key.Version,
   value |-> value]

\* What a method call did: the key after it, the returned value and error,
\* how many clients it constructed, how many remote calls it made, what it
\* sent to the remote operation and what it got from it.
Outcome(key, ret, err, clients, remotes, sent, recv) ==
  [key |-> key, ret |-> ret, err |-> err, clients |-> clients,
   remotes |-> remotes, sent |-> sent, recv |-> recv]

\* Encrypt storing the result before it looks at the error
EncryptStoresFirst(key, dataKey, auth, res) ==
  LET cerr == newKeyVaultClient(auth)
      data == EncodeToString(dataKey)
  IN  IF cerr # NoErr
      THEN Outcome(key, None, cerr, 1, 0, None, None)
      ELSE IF res = None
      THEN Outcome([key EXCEPT !.EncryptedKey = <<>>], None,
                   Err("EncryptError"), 1, 1, Some(Request(key, data)), None)
      ELSE Outcome([key EXCEPT !.EncryptedKey = res[1]], None, NoErr, 1, 1,
                   Some(Request(key, data)), res)

\* Encrypt pinning a key without a version to the version that encrypted
EncryptPinsVersion(key, dataKey, auth, res) ==
  LET cerr == newKeyVaultClient(auth)
      data == EncodeToString(dataKey)
  IN  IF cerr # NoErr
      THEN Outcome(key, None, cerr, 1, 0, None, None)
      ELSE IF res = None
      THEN Outcome(key, None, Err("EncryptError"), 1, 1,
                   Some(Request(key, data)), None)
      ELSE Outcome([key EXCEPT !.EncryptedKey = res[1],
                               !.Version = IF key.Version = <<>>
                                           THEN << "1" >> ELSE key.Version],
                   None, NoErr, 1, 1, Some(Request(key, data)), res)

\* Encrypt keeping an encrypted data key the key already holds
EncryptKeepsExisting(key, dataKey, auth, res) ==
  LET cerr == newKeyVaultClient(auth)
      data == EncodeToString(dataKey)
  IN  IF cerr # NoErr
      THEN Outcome(key, None, cerr, 1, 0, None, None)
      ELSE IF res = None
      THEN Outcome(key, None, Err("EncryptError"), 1, 1,
                   Some(Request(key, data)), None)
      ELSE Outcome(IF key.EncryptedKey = <<>>
                   THEN [key EXCEPT !.EncryptedKey = res[1]] ELSE key,
                   None, NoErr, 1, 1, Some(Request(key, data)), res)

\* Encrypt asking the vault a second time when the first call fails
EncryptRetries(key, dataKey, auth, res) ==
  LET cerr == newKeyVaultClient(auth)
      data == EncodeToString(dataKey)
  IN  IF cerr # NoErr
      THEN Outcome(key, None, cerr, 1, 0, None, None)
      ELSE IF res = None
      THEN Outcome(key, None, Err("EncryptError"), 1, 2,
                   Some(Request(key, data)), None)
      ELSE Outcome([key EXCEPT !.EncryptedKey = res[1]], None, NoErr, 1, 1,
                   Some(Request(key, data)), res)

Encrypt(key, dataKey, auth, res) ==
  LET cerr == newKeyVaultClient(auth)
      data == EncodeToString(dataKey)
  IN  IF cerr # NoErr
      THEN Outcome(key, None, cerr, 1, 0, None, None)
      ELSE IF res = None
      THEN Outcome(key, None, Err("EncryptError"), 1, 1,
                   Some(Request(key, data)), None)
      ELSE Outcome([key EXCEPT !.EncryptedKey = res[1]], None, NoErr, 1, 1,
                   Some(Request(key, data)), res)

\* EncryptIfNeeded without its test
EncryptIfNeededAlways(key, dataKey, auth, res) ==
  Encrypt(key, dataKey, auth, res)

EncryptIfNeeded(key, dataKey, auth, res) ==
  IF key.EncryptedKey = <<>>
  THEN Encrypt(key, dataKey, auth, res)
  ELSE Outcome(key, None, NoErr, 0, 0, None, None)

\* Decrypt returning the text of the result as it came
DecryptUndecoded(key, auth, res) ==
  LET cerr == newKeyVaultClient(auth)
  IN  IF cerr # NoErr
      THEN Outcome(key, None, cerr, 1, 0, None, None)
      ELSE IF res = None
      THEN Outcome(key, None, Err("DecryptError"), 1, 1,
                   Some(Request(key, key.EncryptedKey)), None)
      ELSE Outcome(key, res, NoErr, 1, 1,
                   Some(Request(key, key.EncryptedKey)), res)

\* Decrypt using up the encrypted data key it decrypted
DecryptClears(key, auth, res) ==
  LET cerr == newKeyVaultClient(auth)
  IN  IF cerr # NoErr
      THEN Outcome(key, None, cerr, 1, 0, None, None)
      ELSE IF res = None
      THEN Outcome(key, None, Err("DecryptError"), 1, 1,
                   Some(Request(key, key.EncryptedKey)), None)
      ELSE LET d == DecodeString(res[1])
           IN  IF d.corrupt
               THEN Outcome(key, None, Err("CorruptInputError"), 1, 1,
                            Some(Request(key, key.EncryptedKey)), res)
               ELSE Outcome([key EXCEPT !.EncryptedKey = <<>>],
                            Some(d.bytes), NoErr, 1, 1,
                            Some(Request(key, key.EncryptedKey)), res)

\* Decrypt keeping the text the vault answered with as the encrypted data key
DecryptStoresAnswer(key, auth, res) ==
  LET cerr == newKeyVaultClient(auth)
  IN  IF cerr # NoErr
      THEN Outcome(key, None, cerr, 1, 0, None, None)
      ELSE IF res = None
      THEN Outcome(key, None, Err("DecryptError"), 1, 1,
                   Some(Request(key, key.EncryptedKey)), None)
      ELSE LET d == DecodeString(res[1])
           IN  IF d.corrupt
               THEN Outcome(key, None, Err("CorruptInputError"), 1, 1,
                            Some(Request(key, key.EncryptedKey)), res)
               ELSE Outcome([key EXCEPT !.EncryptedKey = res[1]],
                            Some(d.bytes), NoErr, 1, 1,
                            Some(Request(key, key.EncryptedKey)), res)

\* Decrypt returning what DecodeString returned, bytes and error
DecryptPartial(key, auth, res) ==
  LET cerr == newKeyVaultClient(auth)
  IN  IF cerr # NoErr
      THEN Outcome(key, None, cerr, 1, 0, None, None)
      ELSE IF res = None
      THEN Outcome(key, None, Err("DecryptError"), 1, 1,
                   Some(Request(key, key.EncryptedKey)), None)
      ELSE LET d == DecodeString(res[1])
           IN  Outcome(key, Some(d.bytes),
                       IF d.corrupt THEN Err("CorruptInputError") ELSE NoErr,
                       1, 1, Some(Request(key, key.EncryptedKey)), res)

Decrypt(key, auth, res) ==
  LET cerr == newKeyVaultClient(auth)
  IN  IF cerr # NoErr
      THEN Outcome(key, None, cerr, 1, 0, None, None)
      ELSE IF res = None
      THEN Outcome(key, None, Err("DecryptError"), 1, 1,
                   Some(Request(key, key.EncryptedKey)), None)
      ELSE LET d == DecodeString(res[1])
           IN  IF d.corrupt
               THEN Outcome(key, None, Err("CorruptInputError"), 1, 1,
                            Some(Request(key, key.EncryptedKey)), res)
               ELSE Outcome(key, Some(d.bytes), NoErr, 1, 1,
                            Some(Request(key, key.EncryptedKey)), res)

(***************************************************************************)
(* Rotation policy and serialization.  Time is counted in ticks,           *)
(* TicksPerSecond to the second.                                           *)
(***************************************************************************)
TicksPerSecond == 2

\* time.Hour * 24 * 30 * 6
RotationThreshold == 3600 * TicksPerSecond * 24 * 30 * 6

\* NeedsRotation asking for rotation from the threshold on
NeedsRotationInclusive(key, t) == t - key.CreationDate >= RotationThreshold

NeedsRotation(key, t) == t - key.CreationDate > RotationThreshold

\* a format writing the nearest second
FormatNearestSecond(t) == (t + TicksPerSecond \div 2) \div TicksPerSecond

\* Format(time.RFC3339) writes the instant to the second: the second it is in
FormatRFC3339(t) == t \div TicksPerSecond

ToMap(key) ==
  [vaultUrl |-> key.VaultURL, key |-> key.Name, version |-> key.Version,
   created_at |-> FormatRFC3339(key.CreationDate), enc |-> key.EncryptedKey]

(***************************************************************************)
(* The inputs the calls are made with.                                     *)
(***************************************************************************)
\* the sequences over S of length at most n
SeqsUpTo(S, n) == UNION {[1..m -> S] : m \in 0..n}

\* the references the caller holds
Refs == {"A", "B"}

\* data keys: the first bytes, none to MaxKeyLen of them, of 1, 2, 3, ...
\* and of 0xFB, 0xFC, 0xFD, ..., whose encodings reach "-" and "_"
LowBytes(n) == [i \in 1..n |-> i % 256]

HighBytes(n) == [i \in 1..n |-> (250 + i) % 256]

DataKeys == {LowBytes(n) : n \in 0..MaxKeyLen} \cup
            {HighBytes(n) : n \in 0..MaxKeyLen}

VaultHttps == HttpsPrefix \o << "v" >>

\* arguments of NewMasterKey: the constructor takes any three strings
VaultArgs == {VaultHttps, << "v" >>, VaultHttps \o <<Slash>>}

NameArgs == {<< "k" >>, <<>>, << "a", Slash, "b" >>}

VersionArgs == {<< "1" >>, <<>>}

\* identity strings handed to NewMasterKeyFromURL, well formed and not:
\* every way of putting a scheme, a host, a path, a name, a separator and a
\* version together
UrlSchemes ==
  {HttpsPrefix, << "h","t","t","p",":","/","/" >>,
   << "h","t","t","p","s",":","/" >>}

UrlHosts == {<< "v" >>, << "v", ":", "8" >>, <<>>}

UrlPaths == {KeysPath, << "/","k","e","y","/" >>, KeysPath \o <<Slash>>}

UrlNames == {<< "k" >>, << "k","e","y","s" >>, <<>>}

UrlSeps == {<<Slash>>, <<>>}

UrlVersions == {<< "1" >>, <<>>, << "1", Slash >>, << "1", "\n" >>}

UrlArgs ==
  {s \o h \o p \o n \o q \o v :
     s \in UrlSchemes, h \in UrlHosts, p \in UrlPaths,
     n \in UrlNames, q \in UrlSeps, v \in UrlVersions}

\* segments of the lists handed to MasterKeysFromURLs: two identity
\* strings, the empty segment and a string that is no identity
UrlA == VaultHttps \o KeysPath \o << "a" >> \o <<Slash>> \o << "1" >>

UrlB == VaultHttps \o KeysPath \o << "b" >> \o <<Slash>> \o << "2" >>

Segments == {UrlA, UrlB, <<>>, << "x" >>}

SegLists == SeqsUpTo(Segments, MaxSegs)

\* the segments joined with commas
RECURSIVE Join(_)
Join(segs) ==
  IF segs = <<>> THEN <<>>
  ELSE IF Len(segs) = 1 THEN segs[1]
  ELSE segs[1] \o << "," >> \o Join(Tail(segs))

\* what the environment can answer
AuthOutcomes == {"ok", "fail"}

\* ciphertexts of the vault: RSA-OAEP output, never empty
CipherTexts == {<< "c", "1" >>, << "c", "2" >>}

EncryptResults == {None} \cup {Some(c) : c \in CipherTexts}

\* texts a remote decrypt can answer with: the encoding of any data key,
\* and texts no Encrypt sent: one character too many, padded, of the
\* standard alphabet, with trailing bits set, with a line feed inside
ForeignTexts ==
  {<< "A","Q","I","D","A" >>, << "A","Q","=","=" >>, << "+","/","A","A" >>,
   << "A","R" >>, << "A","\n","Q" >>}

DecryptResults ==
  {None} \cup {Some(EncodeToString(k)) : k \in DataKeys}
         \cup {Some(t) : t \in ForeignTexts}

\* without a client there is no remote call and no result of one
RemoteResults(auth, results) == IF auth = "ok" THEN results ELSE {None}

\* values handed to SetEncryptedDataKey: a loaded ciphertext, bytes of
\* another origin, nothing
EncArgs == {<<>>, << "c", "1" >>, << "x" >>}

\* instants the clock shows: the start, a tick later, the rotation
\* threshold and up to MaxLate ticks past it
Instants == {0, 1} \cup {RotationThreshold + d : d \in 0..MaxLate}

(***************************************************************************)
(* State: keys, the MasterKey behind each reference; now, the clock;       *)
(* last, the latest call: the method, the reference, the argument, what    *)
(* the environment answered (env: the authorizer's and the remote          *)
(* operation's answer, None for a call that asks neither), and what the    *)
(* call did apart from the key it left; calls, for each reference the      *)
(* call running on it where calls run in parallel (SpecPar below).         *)
(***************************************************************************)
Call(op, ref, arg, env, o) ==
  [op |-> op, ref |-> ref, arg |-> arg, env |-> env,
   ret |-> o.ret, err |-> o.err,
   clients |-> o.clients, remotes |-> o.remotes, sent |-> o.sent,
   recv |-> o.recv]

\* a call that returns ret and err and talks to nobody
Local(ret, err) == Outcome(None, ret, err, 0, 0, None, None)

NoCall == Call("none", "none", None, None, Local(None, NoErr))

\* the keys the references start with: A parsed from an identity string at
\* instant 0, B made by NewMasterKey without a version a tick later, half
\* way through the second
StartKeys ==
  [r \in Refs |->
     IF r = "A" THEN NewMasterKeyFromURL(UrlA, 0).key[1]
     ELSE NewMasterKey(VaultHttps, << "b" >>, <<>>, 1)]

\* a reference no call is running on: what calls holds for it, and what
\* the locals of a call start as
Idle ==
  [pc |-> "idle", op |-> "none", arg |-> None, auth |-> "ok", res |-> None,
   ret |-> None, err |-> NoErr, clients |-> 0, remotes |-> 0,
   sent |-> None, recv |-> None]

NoCalls == [r \in Refs |-> Idle]

Init ==
  /\ now = 1
  /\ keys = StartKeys
  /\ last = NoCall
  /\ calls = NoCalls

CallEncrypt(r) ==
  \E dataKey \in DataKeys, auth \in AuthOutcomes :
  \E res \in RemoteResults(auth, EncryptResults) :
    LET o == Encrypt(keys[r], dataKey, auth, res)
    IN  /\ keys' = [keys EXCEPT ![r] = o.key]
        /\ last' = Call("Encrypt", r, Some(dataKey), Some(<<auth, res>>), o)
        /\ UNCHANGED <<now, calls>>

CallEncryptIfNeeded(r) ==
  \E dataKey \in DataKeys, auth \in AuthOutcomes :
  \E res \in RemoteResults(auth, EncryptResults) :
    LET o == EncryptIfNeeded(keys[r], dataKey, auth, res)
    IN  /\ keys' = [keys EXCEPT ![r] = o.key]
        /\ last' = Call("EncryptIfNeeded", r, Some(dataKey),
                        Some(<<auth, res>>), o)
        /\ UNCHANGED <<now, calls>>

CallDecrypt(r) ==
  \E auth \in AuthOutcomes :
  \E res \in RemoteResults(auth, DecryptResults) :
    LET o == Decrypt(keys[r], auth, res)
    IN  /\ keys' = [keys EXCEPT ![r] = o.key]
        /\ last' = Call("Decrypt", r, None, Some(<<auth, res>>), o)
        /\ UNCHANGED <<now, calls>>

CallSetEncryptedDataKey(r) ==
  \E enc \in EncArgs :
    /\ keys' = [keys EXCEPT ![r] = SetEncryptedDataKey(keys[r], enc)]
    /\ last' = Call("SetEncryptedDataKey", r, Some(enc), None,
                    Local(None, NoErr))
    /\ UNCHANGED <<now, calls>>

CallEncryptedDataKey(r) ==
  /\ last' = Call("EncryptedDataKey", r, None, None,
                  Local(Some(EncryptedDataKey(keys[r])), NoErr))
  /\ UNCHANGED <<keys, now, calls>>

\* a NeedsRotation that stamps a key it finds due for rotation anew
CallNeedsRotationRestamps(r) ==
  LET due == NeedsRotation(keys[r], now)
  IN  /\ last' = Call("NeedsRotation", r, None, None,
                      Local(Some(due), NoErr))
      /\ keys' = [keys EXCEPT ![r].CreationDate =
                                 IF due THEN now ELSE keys[r].CreationDate]
      /\ UNCHANGED <<now, calls>>

CallNeedsRotation(r) ==
  /\ last' = Call("NeedsRotation", r, None, None,
                  Local(Some(NeedsRotation(keys[r], now)), NoErr))
  /\ UNCHANGED <<keys, now, calls>>

CallToString(r) ==
  /\ last' = Call("ToString", r, None, None,
                  Local(Some(ToString(keys[r])), NoErr))
  /\ UNCHANGED <<keys, now, calls>>

CallToMap(r) ==
  /\ last' = Call("ToMap", r, None, None,
                  Local(Some(ToMap(keys[r])), NoErr))
  /\ UNCHANGED <<keys, now, calls>>

\* time passes between calls
Tick ==
  /\ \E t \in Instants : t > now /\ now' = t
  /\ last' = NoCall
  /\ UNCHANGED <<keys, calls>>

Next ==
  \/ \E r \in Refs : CallEncrypt(r)
  \/ \E r \in Refs : CallEncryptIfNeeded(r)
  \/ \E r \in Refs : CallDecrypt(r)
  \/ \E r \in Refs : CallSetEncryptedDataKey(r)
  \/ \E r \in Refs : CallEncryptedDataKey(r)
  \/ \E r \in Refs : CallNeedsRotation(r)
  \/ \E r \in Refs : CallToString(r)
  \/ \E r \in Refs : CallToMap(r)
  \/ Tick

Spec == Init /\ [][Next]_vars

(***************************************************************************)
(* The identity codec on its own: the constructors and the list parser     *)
(* applied to every input above.  They return new keys and touch none of   *)
(* the references.                                                         *)
(***************************************************************************)
InitCodec ==
  /\ now \in {0, 1}
  /\ keys = StartKeys
  /\ last = NoCall
  /\ calls = NoCalls

CallNewMasterKey ==
  \E v \in VaultArgs, n \in NameArgs, ver \in VersionArgs :
    /\ last' = Call("NewMasterKey", "none", Some(<<v, n, ver>>), None,
                    Local(Some(NewMasterKey(v, n, ver, now)), NoErr))
    /\ UNCHANGED <<keys, now, calls>>

CallNewMasterKeyFromURL ==
  \E url \in UrlArgs :
    LET r == NewMasterKeyFromURL(url, now)
    IN  /\ last' = Call("NewMasterKeyFromURL", "none", Some(url), None,
                        Local(r.key, r.err))
        /\ UNCHANGED <<keys, now, calls>>

CallMasterKeysFromURLs ==
  \E segs \in SegLists :
    LET urls == Join(segs)
        r == MasterKeysFromURLs(urls, now)
    IN  /\ last' = Call("MasterKeysFromURLs", "none", Some(urls), None,
                        Local(r.keys, r.err))
        /\ UNCHANGED <<keys, now, calls>>

NextCodec ==
  \/ CallNewMasterKey
  \/ CallNewMasterKeyFromURL
  \/ CallMasterKeysFromURLs

SpecCodec == InitCodec /\ [][NextCodec]_vars

(***************************************************************************)
(* Calls in parallel: Encrypt, EncryptIfNeeded and Decrypt step by step,   *)
(* one call at a time on each reference, the steps of the calls on         *)
(* different references interleaved in every way.  calls[r] holds the      *)
(* position of the call on r (pc: "idle" between calls, "test" at the test *)
(* of EncryptIfNeeded, "client" before newKeyVaultClient, "remote" before  *)
(* the remote operation, "result" after it), its method and argument, the  *)
(* environment's answers to it (auth, res) and its locals; after the call  *)
(* returned, what it returned.                                             *)
(***************************************************************************)
ParOps == {"Encrypt", "EncryptIfNeeded", "Decrypt"}

\* the data key the parallel calls encrypt
ParDataKeys == {LowBytes(MaxKeyLen)}

\* what the remote decrypt answers them: an error, the encoding of the data
\* key, a text that does not decode
ParDecryptResults ==
  {None} \cup {Some(EncodeToString(k)) : k \in ParDataKeys}
         \cup {Some(<< "A","Q","I","D","A" >>)}

\* a call with no parameter but the key is Decrypt
ParArgs(op) ==
  IF op = "Decrypt" THEN {None} ELSE {Some(k) : k \in ParDataKeys}

\* AssignEncryptedKey writing the field of every key
AssignEncryptedKeyOfAll(ks, r, text) ==
  [q \in Refs |-> [ks[q] EXCEPT !.EncryptedKey = text]]

\* key.EncryptedKey = *res.Result, key being the key behind r
AssignEncryptedKey(ks, r, text) == [ks EXCEPT ![r].EncryptedKey = text]

InitPar ==
  /\ now = 1
  /\ keys = StartKeys
  /\ last = NoCall
  /\ calls = NoCalls

\* a caller calls a method on r, on which no call is running
ParBegin(r) ==
  /\ calls[r].pc = "idle"
  /\ \E op \in ParOps : \E arg \in ParArgs(op) :
       calls' = [calls EXCEPT ![r] =
                   [Idle EXCEPT !.pc = IF op = "EncryptIfNeeded"
                                       THEN "test" ELSE "client",
                                !.op = op, !.arg = arg]]
  /\ UNCHANGED <<keys, last, now>>

\* EncryptIfNeeded: if len(key.EncryptedKey) == 0 { return key.Encrypt(..) };
\* return nil
ParTest(r) ==
  /\ calls[r].pc = "test"
  /\ calls' = [calls EXCEPT ![r].pc =
                 IF keys[r].EncryptedKey = <<>> THEN "client" ELSE "idle"]
  /\ UNCHANGED <<keys, last, now>>

\* c, err := newKeyVaultClient(); if err != nil { return .. }
ParClient(r) ==
  /\ calls[r].pc = "client"
  /\ \E auth \in AuthOutcomes :
       LET cerr == newKeyVaultClient(auth)
       IN  calls' = [calls EXCEPT ![r] =
                       [@ EXCEPT !.pc = IF cerr # NoErr
                                        THEN "idle" ELSE "remote",
                                 !.auth = auth, !.clients = 1,
                                 !.err = cerr]]
  /\ UNCHANGED <<keys, last, now>>

\* res, err := c.Encrypt(..) or c.Decrypt(..) with the key's vault, name and
\* version; if err != nil { return .. }
ParRemote(r) ==
  /\ calls[r].pc = "remote"
  /\ \E res \in IF calls[r].op = "Decrypt"
                 THEN ParDecryptResults ELSE EncryptResults :
       LET value == IF calls[r].op = "Decrypt"
                    THEN keys[r].EncryptedKey
                    ELSE EncodeToString(calls[r].arg[1])
           failed == Err(IF calls[r].op = "Decrypt"
                         THEN "DecryptError" ELSE "EncryptError")
       IN  calls' = [calls EXCEPT ![r] =
                       [@ EXCEPT !.pc = IF res = None
                                        THEN "idle" ELSE "result",
                                 !.res = res, !.recv = res, !.remotes = 1,
                                 !.sent = Some(Request(keys[r], value)),
                                 !.err = IF res = None
                                         THEN failed ELSE NoErr]]
  /\ UNCHANGED <<keys, last, now>>

\* Encrypt: key.EncryptedKey = *res.Result; return nil.
\* Decrypt: plaintext, err := DecodeString(*res.Result); return ..
ParResult(r) ==
  /\ calls[r].pc = "result"
  /\ IF calls[r].op = "Decrypt"
     THEN LET d == DecodeString(calls[r].recv[1])
          IN  /\ calls' = [calls EXCEPT ![r] =
                             [@ EXCEPT !.pc = "idle",
                                       !.ret = IF d.corrupt THEN None
                                               ELSE Some(d.bytes),
                                       !.err = IF d.corrupt
                                               THEN Err("CorruptInputError")
                                               ELSE NoErr]]
              /\ UNCHANGED keys
     ELSE /\ keys' = AssignEncryptedKey(keys, r, calls[r].recv[1])
          /\ calls' = [calls EXCEPT ![r].pc = "idle"]
  /\ UNCHANGED <<last, now>>

NextPar ==
  \/ \E r \in Refs : ParBegin(r)
  \/ \E r \in Refs : ParTest(r)
  \/ \E r \in Refs : ParClient(r)
  \/ \E r \in Refs : ParRemote(r)
  \/ \E r \in Refs : ParResult(r)

SpecPar == InitPar /\ [][NextPar]_vars

(***************************************************************************)
(* Properties of the wrap/unwrap engine, checked under Spec.               *)
(***************************************************************************)
Wrapped(key) == key.EncryptedKey # <<>>

\* the environment's answers to the latest call
AuthOf(call) == call.env[1][1]

ResOf(call) == call.env[1][2]

\* C1: when Encrypt of data key k on a reference succeeds and the next call,
\* a Decrypt on the same reference, succeeds with the vault answering with
\* the very text that Encrypt sent it (its decrypt inverts its encrypt),
\* Decrypt returns k.
C1_RoundTrip ==
  [][ ( /\ last.op = "Encrypt" /\ last.err = NoErr
        /\ last'.op = "Decrypt" /\ last'.ref = last.ref
        /\ last'.err = NoErr
        /\ ResOf(last') = Some(last.sent[1].value) )
      => last'.ret = last.arg ]_vars

\* a Decrypt returned the data key 1, 2, 3 from the text "AQID", on a
\* reference holding a ciphertext only Encrypt can have stored
C1_Witness ==
  /\ last.op = "Decrypt" /\ last.err = NoErr
  /\ last.ret = Some(<<1, 2, 3>>)
  /\ last.recv = Some(<< "A","Q","I","D" >>)
  /\ keys[last.ref].EncryptedKey = << "c", "2" >>
  /\ last.sent[1].value = << "c", "2" >>

\* C2: an Encrypt for which the client cannot be constructed or the remote
\* call errors returns an error, and an Encrypt that returns an error leaves
\* EncryptedKey (and every other field of every key) as it was.
C2_FailedEncryptKeepsKey ==
  [][ last'.op = "Encrypt" =>
        /\ (AuthOf(last') = "fail" \/ ResOf(last') = None)
             => last'.err # NoErr
        /\ last'.err # NoErr => keys' = keys ]_vars

\* the remote call of an Encrypt failed on a reference that held a
\* ciphertext, and the ciphertext is still there
C2_Witness ==
  /\ last.op = "Encrypt" /\ last.err = Err("EncryptError")
  /\ last.remotes = 1
  /\ keys[last.ref].EncryptedKey = << "c", "2" >>

\* C3: EncryptIfNeeded on a key that holds an encrypted data key returns no
\* error, changes no key, constructs no client and makes no remote call; on
\* a key that holds none it does what Encrypt does with the same data key
\* and the same answers of the environment: the same key afterwards, the
\* same error, the same client and remote calls.
C3_EncryptIfNeeded ==
  [][ last'.op = "EncryptIfNeeded" =>
        LET r == last'.ref
        IN  IF Wrapped(keys[r])
            THEN /\ last'.err = NoErr
                 /\ keys' = keys
                 /\ last'.clients = 0 /\ last'.remotes = 0
                 /\ last'.sent = None /\ last'.recv = None
            ELSE LET o == Encrypt(keys[r], last'.arg[1], AuthOf(last'),
                                  ResOf(last'))
                 IN  /\ keys' = [keys EXCEPT ![r] = o.key]
                     /\ last' = Call("EncryptIfNeeded", r, last'.arg,
                                     last'.env, o) ]_vars

\* EncryptIfNeeded was called with a working vault on a key that held an
\* encrypted data key, and talked to nobody
C3_Witness ==
  /\ last.op = "EncryptIfNeeded" /\ last.err = NoErr
  /\ AuthOf(last) = "ok" /\ ResOf(last) = Some(<< "c", "1" >>)
  /\ last.clients = 0 /\ last.remotes = 0
  /\ keys[last.ref].EncryptedKey = << "c", "2" >>

\* C4: Decrypt returns a data key exactly when the client is constructed,
\* the remote call succeeds and the text it answers decodes; the key is then
\* the decoded text; in the three other cases Decrypt returns an error and
\* no bytes at all.
C4_DecryptOutcome ==
  last.op = "Decrypt" =>
    LET ok == /\ AuthOf(last) = "ok"
              /\ ResOf(last) # None
              /\ ~DecodeString(ResOf(last)[1]).corrupt
    IN  /\ (last.err = NoErr) <=> ok
        /\ (last.ret # None) <=> ok
        /\ ok => last.ret = Some(DecodeString(ResOf(last)[1]).bytes)

\* the vault answered a Decrypt with a text whose first quantum decodes and
\* whose rest does not: an error and no bytes came back
C4_Witness ==
  /\ last.op = "Decrypt" /\ last.err = Err("CorruptInputError")
  /\ last.ret = None
  /\ last.recv = Some(<< "A","Q","I","D","A" >>)
  /\ DecodeString(last.recv[1]).bytes = <<1, 2, 3>>

(***************************************************************************)
(* Properties of the identity codec, checked under SpecCodec.              *)
(***************************************************************************)
NoSlash(t) == \A i \in 1..Len(t) : t[i] # Slash

\* the ways to read s as "https://" host "/keys/" name "/" version with a
\* host, a name and a version that are not empty and hold no "/"
Readings(s) ==
  LET fixed == Len(HttpsPrefix) + Len(KeysPath) + 1
      cuts == {<<a, b>> \in (1..Len(s)) \X (1..Len(s)) :
                 fixed + a + b < Len(s)}
      hs(c) == Len(HttpsPrefix)
      ns(c) == hs(c) + c[1] + Len(KeysPath)
      vs(c) == ns(c) + c[2] + 1
  IN  {<<h, n, v>> \in
         {<< SubSeq(s, hs(c) + 1, hs(c) + c[1]),
             SubSeq(s, ns(c) + 1, ns(c) + c[2]),
             SubSeq(s, vs(c) + 1, Len(s)) >> : c \in cuts} :
         /\ NoSlash(h) /\ NoSlash(n) /\ NoSlash(v)
         /\ s = HttpsPrefix \o h \o KeysPath \o n \o <<Slash>> \o v}

\* the identity of a key: its vault, name and version
Identity(key) == <<key.VaultURL, key.Name, key.Version>>

\* C5: NewMasterKeyFromURL returns a key exactly for a string that reads as
\* https://host/keys/name/version; the key then has the vault https://host,
\* that name, that version and no encrypted data key; for every other
\* string it returns the parse error and no key.
C5_ParseExactShape ==
  last.op = "NewMasterKeyFromURL" =>
    LET s == last.arg[1]
    IN  IF Readings(s) = {}
        THEN last.err = ParseErr(s) /\ last.ret = None
        ELSE /\ last.err = NoErr
             /\ \E p \in Readings(s) :
                  last.ret = Some(MasterKey(HttpsPrefix \o p[1], p[2], p[3],
                                            <<>>, now))

\* a well formed identity followed by one more "/" was refused
C5_Witness ==
  /\ last.op = "NewMasterKeyFromURL"
  /\ last.arg = Some(VaultHttps \o KeysPath \o << "k", Slash, "1", Slash >>)
  /\ last.err.kind = "ParseError" /\ last.ret = None

\* C6: ToString of the key NewMasterKeyFromURL returns for a string is that
\* string.
C6_FormatOfParse ==
  (last.op = "NewMasterKeyFromURL" /\ last.err = NoErr)
    => ToString(last.ret[1]) = last.arg[1]

\* an identity with a port in its host and "keys" as its key name was
\* parsed, and formats back
C6_Witness ==
  /\ last.op = "NewMasterKeyFromURL" /\ last.err = NoErr
  /\ last.ret[1].VaultURL = HttpsPrefix \o << "v", ":", "8" >>
  /\ last.ret[1].Name = << "k","e","y","s" >>
  /\ ToString(last.ret[1]) = last.arg[1]

\* a key as the data model has it: the vault an https address of a host, a
\* name that is not empty, a version that may be empty, no "/" in any
WellFormed(key) ==
  /\ \E h \in {SubSeq(key.VaultURL, Len(HttpsPrefix) + 1, Len(key.VaultURL))} :
       h # <<>> /\ NoSlash(h) /\ key.VaultURL = HttpsPrefix \o h
  /\ key.Name # <<>> /\ NoSlash(key.Name)
  /\ NoSlash(key.Version)

\* C7: the string ToString gives for a key a constructor returned, whichever
\* constructor and with a version or without, parses, and into a key of the
\* same vault, name and version. (Stated for the well formed keys, the least
\* the claim says.)
C7_ParseOfFormat ==
  ( /\ last.op \in {"NewMasterKey", "NewMasterKeyFromURL"}
    /\ last.ret # None
    /\ WellFormed(last.ret[1]) )
    => LET p == NewMasterKeyFromURL(ToString(last.ret[1]), now)
       IN  /\ p.err = NoErr
           /\ Identity(p.key[1]) = Identity(last.ret[1])

\* the keys the pieces parse into, in their order
KeysOf(segs, t) ==
  [i \in 1..Len(segs) |-> NewMasterKeyFromURL(segs[i], t).key[1]]

\* the pieces that do not parse
Failing(segs, t) ==
  {i \in 1..Len(segs) : NewMasterKeyFromURL(segs[i], t).err # NoErr}

\* the segment lists whose joining with commas gives a text that is not empty
ListsOf(urls) == {segs \in SegLists : urls # <<>> /\ Join(segs) = urls}

\* C8: MasterKeysFromURLs returns no key and no error for the empty text;
\* for segments that all parse, their keys in the order of the segments and
\* no error; and when a segment does not parse, wherever it stands, no key
\* at all and the parse error of the first such segment.
C8_AllOrNothing ==
  last.op = "MasterKeysFromURLs" =>
    /\ last.arg = Some(<<>>) => (last.ret = <<>> /\ last.err = NoErr)
    /\ \A segs \in ListsOf(last.arg[1]) :
         LET bad == Failing(segs, now)
         IN  IF bad = {}
             THEN last.err = NoErr /\ last.ret = KeysOf(segs, now)
             ELSE /\ last.ret = <<>>
                  /\ \E i \in bad :
                       /\ \A j \in bad : i <= j
                       /\ last.err = ParseErr(segs[i])

\* a list of two identities and then a text that is none gave no key
C8_Witness ==
  /\ last.op = "MasterKeysFromURLs"
  /\ last.arg = Some(Join(<<UrlA, UrlB, << "x" >> >>))
  /\ last.ret = <<>>
  /\ last.err = ParseErr(<< "x" >>)

NonEmpty(segs) == SelectSeq(segs, LAMBDA g : g # <<>>)

\* C9 as claimed: MasterKeysFromURLs parses the segments that are not empty
\* and, when they all parse, returns their keys in order, empty segments
\* among them or not.
C9_SkipsEmptySegments ==
  last.op = "MasterKeysFromURLs" =>
    \A segs \in SegLists :
      (Join(segs) = last.arg[1] /\ Failing(NonEmpty(segs), now) = {})
        => (last.err = NoErr /\ last.ret = KeysOf(NonEmpty(segs), now))

\* C9 as the code has it: every segment of a text that is not empty is
\* parsed, the empty ones too: a list with an empty segment gives a parse
\* error and no key.
C9_EmptySegmentFails ==
  last.op = "MasterKeysFromURLs" =>
    \A segs \in ListsOf(last.arg[1]) :
      (\E i \in 1..Len(segs) : segs[i] = <<>>)
        => (last.err.kind = "ParseError" /\ last.ret = <<>>)

\* the list of an identity, an empty segment and an identity gave the parse
\* error of the empty segment and no key
C9_Witness ==
  /\ last.op = "MasterKeysFromURLs"
  /\ last.arg = Some(Join(<<UrlA, <<>>, UrlB>>))
  /\ last.err = ParseErr(<<>>)
  /\ last.ret = <<>>

(***************************************************************************)
(* The encrypted data key over the calls, checked under Spec.              *)
(***************************************************************************)
\* C10 as claimed: a key that holds an encrypted data key holds one after
\* every call.
C10_NeverCleared ==
  [][ \A r \in Refs : Wrapped(keys[r]) => Wrapped(keys'[r]) ]_vars

\* C10 as the code has it: a key that holds an encrypted data key holds one
\* after every call but SetEncryptedDataKey with no bytes on that key:
\* after Encrypt, failed or not (the vault's ciphertext is not empty),
\* EncryptIfNeeded, Decrypt, EncryptedDataKey, ToString, ToMap,
\* NeedsRotation, and SetEncryptedDataKey with bytes.
C10_ClearedOnlyBySetEmpty ==
  [][ \A r \in Refs :
        ( /\ Wrapped(keys[r])
          /\ ~( /\ last'.op = "SetEncryptedDataKey"
                /\ last'.ref = r
                /\ last'.arg = Some(<<>>) ) )
        => Wrapped(keys'[r]) ]_vars

\* a Decrypt succeeded on a key and the key still holds the ciphertext it
\* sent
C10_Witness ==
  /\ last.op = "Decrypt" /\ last.err = NoErr
  /\ last.sent # None
  /\ last.sent[1].value = << "c", "2" >>
  /\ keys[last.ref].EncryptedKey = << "c", "2" >>

(***************************************************************************)
(* The data model's invariants on constructed keys.                        *)
(***************************************************************************)
\* an https address of a host: "https://" and a host that is not empty and
\* holds no "/"
WellFormedVault(v) ==
  /\ Len(v) > Len(HttpsPrefix)
  /\ SubSeq(v, 1, Len(HttpsPrefix)) = HttpsPrefix
  /\ NoSlash(SubSeq(v, Len(HttpsPrefix) + 1, Len(v)))

\* C11: every key a constructor returns, NewMasterKey or
\* NewMasterKeyFromURL, has a name that is not empty and a vault that is a
\* well formed address.
C11_ConstructedWellFormed ==
  (last.op \in {"NewMasterKey", "NewMasterKeyFromURL"} /\ last.ret # None)
    => /\ last.ret[1].Name # <<>>
       /\ WellFormedVault(last.ret[1].VaultURL)

\* C12: a key that Encrypt or EncryptIfNeeded has left with an encrypted
\* data key has a version that is not empty. (Stated for the keys these two
\* calls wrap, the least the claim says.)
C12_WrappedHasVersion ==
  ( /\ last.op \in {"Encrypt", "EncryptIfNeeded"}
    /\ last.err = NoErr
    /\ Wrapped(keys[last.ref]) )
    => keys[last.ref].Version # <<>>

(***************************************************************************)
(* Where the encrypted data key comes from, checked under Spec.            *)
(***************************************************************************)
\* the call of this step, a successful Encrypt or EncryptIfNeeded on r,
\* stored the ciphertext the vault answered it with
StoredByEncrypt(r) ==
  /\ last'.op \in {"Encrypt", "EncryptIfNeeded"}
  /\ last'.ref = r
  /\ last'.err = NoErr
  /\ last'.recv # None
  /\ keys'[r].EncryptedKey = last'.recv[1]

\* the call of this step, SetEncryptedDataKey on r, stored its argument
StoredBySetter(r) ==
  /\ last'.op = "SetEncryptedDataKey"
  /\ last'.ref = r
  /\ keys'[r].EncryptedKey = last'.arg[1]

\* C13 as claimed: every key starts without an encrypted data key, and the
\* only step that gives a key another encrypted data key than it has is a
\* successful Encrypt (alone or in EncryptIfNeeded) on that key, which
\* stores the ciphertext its remote encrypt returned.
C13_OnlyVaultCiphertext ==
  /\ \A r \in Refs : keys[r].EncryptedKey = <<>>
  /\ [][ \A r \in Refs :
           keys'[r].EncryptedKey # keys[r].EncryptedKey
             => StoredByEncrypt(r) ]_vars

\* C13 as the code has it: every key starts without an encrypted data key,
\* and the only steps that give a key another encrypted data key than it
\* has are a successful Encrypt (alone or in EncryptIfNeeded) on that key,
\* which stores the ciphertext its remote encrypt returned, and
\* SetEncryptedDataKey on that key, which stores the bytes it is given,
\* whatever they are.
C13_VaultCiphertextOrSetter ==
  /\ \A r \in Refs : keys[r].EncryptedKey = <<>>
  /\ [][ \A r \in Refs :
           keys'[r].EncryptedKey # keys[r].EncryptedKey
             => (StoredByEncrypt(r) \/ StoredBySetter(r)) ]_vars

\* SetEncryptedDataKey has put bytes no vault produced on a key: the key
\* now holds "x"
C13_Witness ==
  /\ last.op = "SetEncryptedDataKey"
  /\ last.arg = Some(<< "x" >>)
  /\ keys[last.ref].EncryptedKey = << "x" >>

(***************************************************************************)
(* The rotation policy, checked under Spec.                                *)
(***************************************************************************)
\* 6 * 30 * 24 hours, in ticks
SixMonths == 6 * 30 * 24 * 3600 * TicksPerSecond

\* the time since the key was created, at instant t
Age(key, t) == t - key.CreationDate

\* C14: NeedsRotation returns true exactly when the key is older than
\* 6 * 30 * 24 hours: false at the instant of creation and at the threshold
\* to the tick, true from the next tick on; no step changes a key's
\* creation date, the clock only advances, and so a key that is older than
\* the threshold stays so.
C14_RotationThreshold ==
  [][ /\ last'.op = "NeedsRotation"
           => last'.ret = Some(Age(keys'[last'.ref], now') > SixMonths)
      /\ \A r \in Refs :
           /\ keys'[r].CreationDate = keys[r].CreationDate
           /\ now' >= now
           /\ Age(keys[r], now) > SixMonths
                => Age(keys'[r], now') > SixMonths ]_vars

\* NeedsRotation returned false on a key exactly 6 * 30 * 24 hours old
C14_Witness ==
  /\ last.op = "NeedsRotation"
  /\ Age(keys[last.ref], now) = SixMonths
  /\ last.ret = Some(FALSE)

(***************************************************************************)
(* Clients and remote calls of one call, checked under Spec.               *)
(***************************************************************************)
\* C15: a call of Encrypt or Decrypt constructs one client and makes at most
\* one remote call: none, and an error, when the client cannot be
\* constructed; one, and an error at once, when the remote call fails; one
\* when it succeeds.  EncryptIfNeeded makes no more than the one Encrypt it
\* may call.
C15_NoRetry ==
  /\ last.op \in {"Encrypt", "Decrypt"}
       => /\ last.clients = 1
          /\ last.remotes <= 1
          /\ AuthOf(last) = "fail"
               => (last.remotes = 0 /\ last.sent = None /\ last.err # NoErr)
          /\ (AuthOf(last) = "ok" /\ ResOf(last) = None)
               => (last.remotes = 1 /\ last.err # NoErr /\ last.ret = None)
          /\ (AuthOf(last) = "ok" /\ ResOf(last) # None)
               => last.remotes = 1
  /\ last.op = "EncryptIfNeeded"
       => /\ last.clients <= 1
          /\ last.remotes <= last.clients
          /\ (last.err # NoErr /\ AuthOf(last) = "ok") => last.remotes = 1
  /\ last.op \notin {"Encrypt", "Decrypt", "EncryptIfNeeded"}
       => (last.clients = 0 /\ last.remotes = 0)

\* the remote encrypt of an Encrypt failed: one client, one remote call, an
\* error
C15_Witness ==
  /\ last.op = "Encrypt"
  /\ AuthOf(last) = "ok" /\ ResOf(last) = None
  /\ last.clients = 1 /\ last.remotes = 1
  /\ last.err = Err("EncryptError")

(***************************************************************************)
(* The serialized key, checked under Spec.                                 *)
(***************************************************************************)
\* C17: the map ToMap returns has the five entries vaultUrl, key, version,
\* created_at and enc and no other; vaultUrl, key, version and enc are the
\* key's VaultURL, Name, Version and EncryptedKey (enc empty for a key
\* without an encrypted data key), and created_at is the second the key's
\* CreationDate is in.
C17_ToMapFields ==
  last.op = "ToMap"
    => LET out == last.ret[1]
           key == keys[last.ref]
       IN  /\ DOMAIN out = {"vaultUrl", "key", "version", "created_at", "enc"}
           /\ out.vaultUrl = key.VaultURL
           /\ out.key = key.Name
           /\ out.version = key.Version
           /\ out.enc = key.EncryptedKey
           /\ Wrapped(key) \/ out.enc = <<>>
           /\ out.created_at * TicksPerSecond <= key.CreationDate
           /\ key.CreationDate < (out.created_at + 1) * TicksPerSecond

\* ToMap of a key without an encrypted data key, created half way through
\* second 0: enc is empty and created_at is second 0
C17_Witness ==
  /\ last.op = "ToMap"
  /\ ~Wrapped(keys[last.ref])
  /\ keys[last.ref].CreationDate = 1
  /\ last.ret[1].enc = <<>>
  /\ last.ret[1].created_at = 0

(***************************************************************************)
(* What a successful Encrypt leaves, checked under Spec.                   *)
(***************************************************************************)
\* C18: after a successful Encrypt, on a key with or without an encrypted
\* data key before it, the key's encrypted data key is the ciphertext the
\* remote encrypt of this call returned, and it is not empty.
C18_EncryptOverwrites ==
  [][ (last'.op = "Encrypt" /\ last'.err = NoErr)
        => /\ last'.recv = ResOf(last') /\ last'.recv # None
           /\ keys'[last'.ref].EncryptedKey = last'.recv[1]
           /\ Wrapped(keys'[last'.ref]) ]_vars

\* a successful Encrypt left the key with the ciphertext "c2" the vault
\* returned to it
C18_Witness ==
  /\ last.op = "Encrypt" /\ last.err = NoErr
  /\ last.recv = Some(<< "c", "2" >>)
  /\ last.sent # None
  /\ keys[last.ref].EncryptedKey = << "c", "2" >>

(***************************************************************************)
(* The calls that only read, checked under Spec.                           *)
(***************************************************************************)
\* C19: a call of ToString, ToMap or NeedsRotation leaves every field of
\* every key as it was, takes no data key (no argument at all), constructs
\* no client and makes no remote call.
C19_MetadataReadOnly ==
  [][ last'.op \in {"ToString", "ToMap", "NeedsRotation"}
        => /\ keys' = keys
           /\ last'.arg = None
           /\ last'.env = None
           /\ last'.clients = 0 /\ last'.remotes = 0
           /\ last'.sent = None /\ last'.recv = None
           /\ last'.err = NoErr ]_vars

\* NeedsRotation answered true for a key that holds an encrypted data key,
\* and the key still holds it
C19_Witness ==
  /\ last.op = "NeedsRotation"
  /\ last.ret = Some(TRUE)
  /\ keys[last.ref].EncryptedKey = << "c", "1" >>
  /\ last.clients = 0 /\ last.remotes = 0

(***************************************************************************)
(* What Encrypt, EncryptIfNeeded and Decrypt leave alone, checked under    *)
(* Spec.                                                                   *)
(***************************************************************************)
\* the key but for its encrypted data key
Identified(key) ==
  <<key.VaultURL, key.Name, key.Version, key.CreationDate>>

\* C20: a call of Encrypt, EncryptIfNeeded or Decrypt, failed or not, leaves
\* VaultURL, Name, Version and CreationDate of its key as they were, and the
\* other keys whole; Decrypt leaves its key whole; and a Decrypt that
\* follows a Decrypt on the same key sends the vault the same vault, name,
\* version and ciphertext.
C20_IdentityUntouched ==
  [][ /\ last'.op \in {"Encrypt", "EncryptIfNeeded", "Decrypt"}
           => /\ Identified(keys'[last'.ref]) = Identified(keys[last'.ref])
              /\ \A r \in Refs \ {last'.ref} : keys'[r] = keys[r]
      /\ last'.op = "Decrypt" => keys' = keys
      /\ ( /\ last.op = "Decrypt" /\ last'.op = "Decrypt"
            /\ last'.ref = last.ref
            /\ last.sent # None /\ last'.sent # None )
           => last'.sent = last.sent ]_vars

\* a Decrypt failed at the vault after sending the ciphertext "c1" under the
\* triple A was parsed with, and A has that triple, its creation date and
\* that ciphertext
C20_Witness ==
  /\ last.op = "Decrypt" /\ last.ref = "A"
  /\ last.err = Err("DecryptError")
  /\ last.sent = Some(Request(StartKeys["A"], << "c", "1" >>))
  /\ keys["A"] = [StartKeys["A"] EXCEPT !.EncryptedKey = << "c", "1" >>]

(***************************************************************************)
(* Calls in parallel on different keys, checked under SpecPar.             *)
(***************************************************************************)
\* the method run in one piece on a key with the environment's answers
Sequential(op, key, arg, auth, res) ==
  IF op = "Encrypt" THEN Encrypt(key, arg[1], auth, res)
  ELSE IF op = "EncryptIfNeeded" THEN EncryptIfNeeded(key, arg[1], auth, res)
  ELSE Decrypt(key, auth, res)

\* what a call returned and did, as an Outcome with the key it left
Observed(c, key) ==
  Outcome(key, c.ret, c.err, c.clients, c.remotes, c.sent, c.recv)

\* C16: with calls of Encrypt, EncryptIfNeeded and Decrypt interleaved, one
\* at a time on each key, a step of the call on a key changes no other key
\* and no other call, changes its own key only as its last step, and when
\* the call returns it has returned, sent, received and left on its key
\* exactly what the method run in one piece on that key alone, with the
\* same answers of the environment, returns, sends, receives and leaves:
\* nothing it did depended on another key.
C16_ParallelIsSequential ==
  [][ \A r \in Refs :
        calls'[r] # calls[r]
          => /\ \A q \in Refs \ {r} :
                  keys'[q] = keys[q] /\ calls'[q] = calls[q]
             /\ calls'[r].pc # "idle" => keys' = keys
             /\ (calls[r].pc # "idle" /\ calls'[r].pc = "idle")
                  => LET c == calls'[r]
                     IN  Observed(c, keys'[r]) =
                           Sequential(c.op, keys[r], c.arg, c.auth, c.res)
    ]_vars

\* an Encrypt on A has returned and left A the ciphertext "c1" while a
\* Decrypt on B, which holds "c2", has sent "c2" and not yet returned
C16_Witness ==
  /\ calls["A"].pc = "idle" /\ calls["A"].op = "Encrypt"
  /\ calls["A"].err = NoErr
  /\ keys["A"].EncryptedKey = << "c", "1" >>
  /\ calls["B"].pc = "result" /\ calls["B"].op = "Decrypt"
  /\ calls["B"].sent = Some(Request(keys["B"], << "c", "2" >>))
  /\ keys["B"].EncryptedKey = << "c", "2" >>

====
